---------------------------- MODULE Spec2Model ----------------------------
(***************************************************************************)
(* A model of the fluid-diagnose-bundler pipeline: the redactor, the       *)
(* manifest builder, the archive writer and Build, which drives them.      *)
(*                                                                         *)
(* Byte strings and Go strings are TLA+ strings; Len, \o and SubSeq act on *)
(* them character by character.  Structured values (the resource graph,    *)
(* the diagnosis, the metadata) are trees of tagged nodes.  SHA-256 is     *)
(* stood for by a two-byte polynomial digest of all the bytes (Sum256);    *)
(* the hexadecimal encoding, the JSON encoding, path cleaning, sorting and *)
(* the redaction pattern are computed as the code computes them.           *)
(***************************************************************************)
EXTENDS Integers, Sequences, FiniteSets, TLC

-----------------------------------------------------------------------------
(* Bounds of the model. *)

\* Build is run at most this many times on one input (to compare runs).
MaxRuns == 2
\* At most this many entries in BundleInput.Logs.
MaxLogs == 2
\* At most this many entries in BundleInput.Resources.
MaxResources == 1
\* At most this many AddFile calls on a bare ArchiveWriter.
MaxAdds == 3
\* At most this many pieces in a raw text handed to the redactor.
MaxPieces == 4
\* At most this many levels of nesting under an entry of a generated graph.
MaxDepth == 2

-----------------------------------------------------------------------------
(* Characters and byte order. *)

\* The printable ASCII characters in byte order, 32..95 and 97..126.
PrintableLow == " !\"#$%&'()*+,-./0123456789:;<=>?@ABCDEFGHIJKLMNOPQRSTUVWXYZ[\\]^_"
PrintableHigh == "abcdefghijklmnopqrstuvwxyz{|}~"

CharAt(s, i) == SubSeq(s, i, i)

CharsOf(s) == {CharAt(s, i) : i \in 1..Len(s)}

Chars == CharsOf(PrintableLow) \cup CharsOf(PrintableHigh) \cup {"\n", "\t"}

IndexIn(s, c) == CHOOSE i \in 1..Len(s) : CharAt(s, i) = c

\* The byte value of a character.
Ord == [c \in Chars |->
          IF c = "\n" THEN 10
          ELSE IF c = "\t" THEN 9
          ELSE IF c \in CharsOf(PrintableLow) THEN 31 + IndexIn(PrintableLow, c)
          ELSE 96 + IndexIn(PrintableHigh, c)]

Upper == "ABCDEFGHIJKLMNOPQRSTUVWXYZ"
Lower == "abcdefghijklmnopqrstuvwxyz"

\* The lower-case letter of every upper-case letter; any other character
\* stays as it is.
LowerOf == [c \in Chars |->
              IF c \in CharsOf(Upper) THEN CharAt(Lower, IndexIn(Upper, c)) ELSE c]

LowerChar(c) == LowerOf[c]

\* strings.ToLower
RECURSIVE ToLowerFrom(_, _)
ToLowerFrom(s, i) ==
    IF i > Len(s) THEN "" ELSE LowerChar(CharAt(s, i)) \o ToLowerFrom(s, i + 1)
ToLower(s) == ToLowerFrom(s, 1)

\* strings.Contains
Contains(s, sub) ==
    \E i \in 1..(Len(s) - Len(sub) + 1) : SubSeq(s, i, i + Len(sub) - 1) = sub

\* The text p stands in s at position i.
HasAt(s, i, p) == i + Len(p) - 1 <= Len(s) /\ SubSeq(s, i, i + Len(p) - 1) = p

HasPrefix(s, p) == Len(p) <= Len(s) /\ SubSeq(s, 1, Len(p)) = p

\* s < t in Go: byte-wise lexicographic comparison.
LessStr(s, t) ==
    \E i \in 1..Len(t) :
        /\ i <= Len(s) + 1
        /\ SubSeq(s, 1, i - 1) = SubSeq(t, 1, i - 1)
        /\ \/ i = Len(s) + 1
           \/ Ord[CharAt(s, i)] < Ord[CharAt(t, i)]

RECURSIVE SortSet(_)
SortSet(S) ==
    IF S = {} THEN <<>>
    ELSE LET m == CHOOSE x \in S : \A y \in S \ {x} : LessStr(x, y)
         IN  <<m>> \o SortSet(S \ {m})

\* sort.Strings
SortStrings(S) == SortSet(S)

Range(f) == {f[i] : i \in DOMAIN f}

\* Decimal digits of a natural number, as fmt's %d prints them.
Digits == "0123456789"
RECURSIVE Itoa(_)
Itoa(n) == IF n < 10 THEN CharAt(Digits, n + 1)
           ELSE Itoa(n \div 10) \o CharAt(Digits, (n % 10) + 1)

\* n printed with at least w digits, zero padded (time.Format's 01, 02, 15, 04, 05, 2006).
RECURSIVE Pad(_, _)
Pad(n, w) == IF Len(Itoa(n)) >= w THEN Itoa(n) ELSE "0" \o Pad(n, w - 1)

-----------------------------------------------------------------------------
(* path/filepath on a Unix build: Clean and Join. *)

\* The elements of path between separators, empty ones included.
RECURSIVE SplitPath(_)
SplitPath(path) ==
    IF ~Contains(path, "/") THEN <<path>>
    ELSE LET i == CHOOSE k \in 1..Len(path) :
                     CharAt(path, k) = "/" /\ ~Contains(SubSeq(path, 1, k - 1), "/")
         IN  <<SubSeq(path, 1, i - 1)>> \o SplitPath(SubSeq(path, i + 1, Len(path)))

RECURSIVE JoinSegs(_)
JoinSegs(segs) ==
    IF segs = <<>> THEN ""
    ELSE IF Len(segs) = 1 THEN segs[1]
    ELSE segs[1] \o "/" \o JoinSegs(Tail(segs))

\* The elements Clean keeps: "" and "." are dropped, ".." removes the element
\* before it, is dropped at the root and is kept at the start of a relative path.
RECURSIVE CleanSegs(_, _, _)
CleanSegs(segs, out, rooted) ==
    IF segs = <<>> THEN out
    ELSE LET e == Head(segs) IN
         IF e = "" \/ e = "." THEN CleanSegs(Tail(segs), out, rooted)
         ELSE IF e = ".."
              THEN IF out # <<>> /\ out[Len(out)] # ".."
                   THEN CleanSegs(Tail(segs), SubSeq(out, 1, Len(out) - 1), rooted)
                   ELSE IF rooted THEN CleanSegs(Tail(segs), out, rooted)
                   ELSE CleanSegs(Tail(segs), Append(out, e), rooted)
              ELSE CleanSegs(Tail(segs), Append(out, e), rooted)

\* filepath.Clean
Clean(path) ==
    LET rooted == HasPrefix(path, "/")
        body   == JoinSegs(CleanSegs(SplitPath(path), <<>>, rooted))
    IN  IF rooted THEN "/" \o body
        ELSE IF body = "" THEN "." ELSE body

\* filepath.Join(a, b): empty elements before the first non-empty one are
\* ignored, the rest is joined with the separator and cleaned.
Join(a, b) ==
    IF a # "" THEN Clean(a \o "/" \o b)
    ELSE IF b # "" THEN Clean(b)
    ELSE ""
-----------------------------------------------------------------------------
(* The pattern redactor:                                                   *)
(*   (?i)(password|token|key|secret)\s*[:=]\s*["']?([^"'\s]+)["']?         *)
(* replaced by "$1: " followed by the mask.                                *)

Mask == "[REDACTED]"

\* The alternatives of the pattern's first group, in its order.
Markers == <<"password", "token", "key", "secret">>

\* \s of the pattern, among the characters of the model.
IsSpace(c) == c \in {" ", "\t", "\n"}
IsQuote(c) == c \in {"\"", "'"}
\* [^"'\s]
IsValueChar(c) == ~IsSpace(c) /\ ~IsQuote(c)

\* The character classes of the pattern that are repeated: \s and [^"'\s].
InClass(class, c) == IF class = "space" THEN IsSpace(c) ELSE IsValueChar(c)

\* The first position at or after i that holds no character of the class.
SkipWhile(s, i, class) ==
    CHOOSE j \in i..(Len(s) + 1) :
        /\ \A k \in i..(j - 1) : InClass(class, CharAt(s, k))
        /\ j = Len(s) + 1 \/ ~InClass(class, CharAt(s, j))

\* The length of the marker that starts at i, whatever its letter case; 0 if none.
MarkerAt(s, i) ==
    LET hit == {m \in 1..Len(Markers) :
                  /\ i + Len(Markers[m]) - 1 <= Len(s)
                  /\ ToLower(SubSeq(s, i, i + Len(Markers[m]) - 1)) = Markers[m]}
    IN  IF hit = {} THEN 0
        ELSE Len(Markers[CHOOSE m \in hit : \A n \in hit : m <= n])

\* The match of the pattern that starts at i: [mk |-> the marker's length,
\* from |-> first character of the captured value, to |-> one past it,
\* end |-> one past the match], or end = 0 when no match starts at i.  The
\* pattern is matched piece by piece; every piece is greedy and none can give
\* characters back to the next one, as their character classes are disjoint.
NoMatch == [mk |-> 0, from |-> 0, to |-> 0, end |-> 0]

\* ["']? after the value
MatchEnd(s, mk, from, to) ==
    IF to = from THEN NoMatch
    ELSE [mk |-> mk, from |-> from, to |-> to,
          end |-> IF to <= Len(s) /\ IsQuote(CharAt(s, to)) THEN to + 1 ELSE to]

\* ([^"'\s]+)
MatchValue(s, mk, from) == MatchEnd(s, mk, from, SkipWhile(s, from, "value"))

\* ["']? before the value: a quote is taken when one is there; giving it back
\* never helps, as the value cannot start with a quote.
MatchQuote(s, mk, at) ==
    MatchValue(s, mk, IF at <= Len(s) /\ IsQuote(CharAt(s, at)) THEN at + 1 ELSE at)

\* [:=]\s*
MatchDelim(s, mk, at) ==
    IF at > Len(s) \/ CharAt(s, at) \notin {":", "="} THEN NoMatch
    ELSE MatchQuote(s, mk, SkipWhile(s, at + 1, "space"))

\* (password|token|key|secret)\s*
MatchMarker(s, i, mk) ==
    IF mk = 0 THEN NoMatch ELSE MatchDelim(s, mk, SkipWhile(s, i + mk, "space"))

MatchAt(s, i) == MatchMarker(s, i, MarkerAt(s, i))

\* The start of the leftmost match at or after i, 0 if there is none.
Leftmost(starts) ==
    IF starts = {} THEN 0 ELSE CHOOSE j \in starts : \A k \in starts : j <= k

NextMatch(s, i) == Leftmost({j \in i..Len(s) : MatchAt(s, j).end # 0})

\* regexp.ReplaceAllString(s, "$1: " + mask) from position i on: the text up to
\* the leftmost match is copied, the match is replaced by its marker, ": " and
\* the mask, and the scan resumes after the match.
RECURSIVE ReplaceAllFrom(_, _)
ReplaceMatch(s, i, j, m) ==
    SubSeq(s, i, j - 1) \o SubSeq(s, j, j + m.mk - 1) \o ": " \o Mask
      \o ReplaceAllFrom(s, m.end)

ReplaceNext(s, i, j) ==
    IF j = 0 THEN SubSeq(s, i, Len(s)) ELSE ReplaceMatch(s, i, j, MatchAt(s, j))

ReplaceAllFrom(s, i) == ReplaceNext(s, i, NextMatch(s, i))

\* A redactor that replaces the first match only.
ReplaceFirst(text) ==
    IF NextMatch(text, 1) = 0 THEN text
    ELSE SubSeq(text, 1, NextMatch(text, 1) + MatchAt(text, NextMatch(text, 1)).mk - 1)
           \o ": " \o Mask
           \o SubSeq(text, MatchAt(text, NextMatch(text, 1)).end, Len(text))

\* regexRedactor.RedactString
RedactString(text) == ReplaceAllFrom(text, 1)

\* regexRedactor.Redact: the bytes as a string, redacted, as bytes again.
Redact(bytes) == ReplaceAllFrom(bytes, 1)
-----------------------------------------------------------------------------
(* Structured values.  A node is a record [t, s, n, kv, el]:               *)
(*   "str"    a string s                  "num"  a number n                *)
(*   "bytes"  a []byte s (only as the data of a whole file)                *)
(*   "null"   nil                         "bad"  a value encoding/json     *)
(*                                               rejects (a channel, a     *)
(*                                               func)                     *)
(*   "time"   a time.Time, s its RFC 3339 text and n its year              *)
(*   "map"    map[string]interface{}      "tmap"  a map of another static  *)
(*            with the entries kv                 type (map[string]string) *)
(*   "list"   []interface{} with the      "tlist" a slice of another       *)
(*            elements el                         static type              *)
(*   "struct" a struct, kv its fields in declaration order under their     *)
(*            json names                                                   *)
(* kv is a sequence of <<key, node>> pairs; the entries of a map are kept  *)
(* sorted by key, as a Go map has no order of its own.                     *)

Node(t, s, n, kv, el) == [t |-> t, s |-> s, n |-> n, kv |-> kv, el |-> el]
Str(s)     == Node("str", s, 0, <<>>, <<>>)
Bytes(b)   == Node("bytes", b, 0, <<>>, <<>>)
Num(n)     == Node("num", "", n, <<>>, <<>>)
Null       == Node("null", "", 0, <<>>, <<>>)
Bad        == Node("bad", "", 0, <<>>, <<>>)
TimeV(s, y) == Node("time", s, y, <<>>, <<>>)
Map(kv)    == Node("map", "", 0, kv, <<>>)
TMap(kv)   == Node("tmap", "", 0, kv, <<>>)
List(el)   == Node("list", "", 0, <<>>, el)
TList(el)  == Node("tlist", "", 0, <<>>, el)
Struct(kv) == Node("struct", "", 0, kv, <<>>)
\* types.ResourceGraph: a named map type, so not a map[string]interface{}
\* to a type switch; its values are interface{}.
ResourceGraph(kv) == TMap(kv)

Keys(kv) == {kv[i][1] : i \in DOMAIN kv}
Lookup(kv, k) == kv[CHOOSE i \in DOMAIN kv : kv[i][1] = k][2]

\* The entries in increasing key order (encoding/json writes a map so).
SortKV(kv) == LET ks == SortStrings(Keys(kv))
              IN  [i \in 1..Len(ks) |-> <<ks[i], Lookup(kv, ks[i])>>]

\* Whether json.Marshal(v) succeeds.
RECURSIVE Marshalable(_)
Marshalable(v) ==
    CASE v.t = "bad"  -> FALSE
      \* time.Time.MarshalJSON fails outside the years 0..9999
      [] v.t = "time" -> v.n <= 9999
      [] v.t \in {"map", "tmap", "struct"} ->
            \A i \in DOMAIN v.kv : Marshalable(v.kv[i][2])
      [] v.t \in {"list", "tlist"} ->
            \A i \in DOMAIN v.el : Marshalable(v.el[i])
      [] OTHER -> TRUE

\* The message of the error json.Marshal(v) returns when it fails: that of the
\* first value it cannot encode.
RECURSIVE MarshalError(_)
MarshalError(v) ==
    CASE v.t = "bad"  -> "json: unsupported type: chan int"
      [] v.t = "time" ->
            "json: error calling MarshalJSON for type time.Time: "
              \o "Time.MarshalJSON: year outside of range [0,9999]"
      [] v.t \in {"map", "tmap", "struct"} ->
            MarshalError(v.kv[CHOOSE i \in DOMAIN v.kv :
                                /\ ~Marshalable(v.kv[i][2])
                                /\ \A k \in 1..(i - 1) : Marshalable(v.kv[k][2])][2])
      [] v.t \in {"list", "tlist"} ->
            MarshalError(v.el[CHOOSE i \in DOMAIN v.el :
                                /\ ~Marshalable(v.el[i])
                                /\ \A k \in 1..(i - 1) : Marshalable(v.el[k])])
      [] OTHER -> ""

\* json.Unmarshal(json.Marshal(v)) into an interface{}: every object comes
\* back as a map[string]interface{}, every array as a []interface{}, a time
\* as its text.
RECURSIVE RoundTrip(_)
RoundTrip(v) ==
    CASE v.t \in {"map", "tmap", "struct"} ->
            Map(SortKV([i \in DOMAIN v.kv |-> <<v.kv[i][1], RoundTrip(v.kv[i][2])>>]))
      [] v.t \in {"list", "tlist"} ->
            List([i \in DOMAIN v.el |-> RoundTrip(v.el[i])])
      [] v.t = "time" -> Str(v.s)
      [] OTHER -> v

-----------------------------------------------------------------------------
(* Structural redaction: scrubMap, scrubSlice, scrubJSON. *)

sensitiveKeys == <<"password", "token", "key", "secret", "authorization">>

IsSensitive(k) ==
    \E i \in DOMAIN sensitiveKeys : Contains(ToLower(k), sensitiveKeys[i])

\* scrubMap and scrubSlice recurse into each other; ScrubValue is the type
\* switch both apply to a value: only a map[string]interface{} and a
\* []interface{} are entered, anything else is kept as it is.
RECURSIVE scrubMapKV(_), scrubSliceEl(_)
ScrubValue(v) ==
    CASE v.t = "map"  -> Map(scrubMapKV(v.kv))
      [] v.t = "list" -> List(scrubSliceEl(v.el))
      [] OTHER -> v

scrubMapKV(kv) ==
    [i \in DOMAIN kv |->
        IF IsSensitive(kv[i][1]) THEN <<kv[i][1], Str(Mask)>>
        ELSE <<kv[i][1], ScrubValue(kv[i][2])>>]

scrubSliceEl(el) == [i \in DOMAIN el |-> ScrubValue(el[i])]

\* A scrubMap that masks the sensitive keys of data and copies the other
\* entries without entering them.
scrubMapShallow(data) ==
    Map([i \in DOMAIN data.kv |->
            IF IsSensitive(data.kv[i][1]) THEN <<data.kv[i][1], Str(Mask)>> ELSE data.kv[i]])

scrubMap(data) == Map(scrubMapKV(data.kv))
scrubSlice(data) == List(scrubSliceEl(data.el))

\* A scrubJSON that scrubs the value as it is handed in, without the round
\* trip through its JSON text.
scrubJSONDirect(value) ==
    CASE value.t = "map"  -> scrubMap(value)
      [] value.t = "list" -> scrubSlice(value)
      [] OTHER -> value

\* scrubJSON on a value json.Marshal accepts (the error return is taken
\* when Marshalable(value) is false, see addFile).
scrubJSON(value) ==
    LET data == RoundTrip(value) IN
    CASE data.t = "map"  -> scrubMap(data)
      [] data.t = "list" -> scrubSlice(data)
      [] OTHER -> data
-----------------------------------------------------------------------------
(* encoding/json: json.MarshalIndent(v, "", "  ") on a value it accepts. *)

EscapeChar(c) ==
    CASE c = "\"" -> "\\\""
      [] c = "\\" -> "\\\\"
      [] c = "\n" -> "\\n"
      [] c = "\t" -> "\\t"
      [] c = "<"  -> "\\u003c"
      [] c = ">"  -> "\\u003e"
      [] c = "&"  -> "\\u0026"
      [] OTHER    -> c

RECURSIVE EscapeFrom(_, _)
EscapeFrom(s, i) ==
    IF i > Len(s) THEN "" ELSE EscapeChar(CharAt(s, i)) \o EscapeFrom(s, i + 1)
Escape(s) == EscapeFrom(s, 1)

Quote(s) == "\"" \o Escape(s) \o "\""

RECURSIVE Indent(_)
Indent(d) == IF d = 0 THEN "" ELSE "  " \o Indent(d - 1)

RECURSIVE Encode(_, _), EncodeKV(_, _), EncodeEl(_, _)
Encode(v, d) ==
    CASE v.t = "str"  -> Quote(v.s)
      [] v.t = "time" -> Quote(v.s)
      [] v.t = "num"  -> Itoa(v.n)
      [] v.t = "null" -> "null"
      [] v.t \in {"map", "tmap"} ->
            IF v.kv = <<>> THEN "{}"
            ELSE "{\n" \o EncodeKV(SortKV(v.kv), d + 1) \o "\n" \o Indent(d) \o "}"
      [] v.t = "struct" ->
            IF v.kv = <<>> THEN "{}"
            ELSE "{\n" \o EncodeKV(v.kv, d + 1) \o "\n" \o Indent(d) \o "}"
      [] v.t \in {"list", "tlist"} ->
            IF v.el = <<>> THEN "[]"
            ELSE "[\n" \o EncodeEl(v.el, d + 1) \o "\n" \o Indent(d) \o "]"

EncodeKV(kv, d) ==
    Indent(d) \o Quote(kv[1][1]) \o ": " \o Encode(kv[1][2], d)
      \o (IF Len(kv) = 1 THEN "" ELSE ",\n" \o EncodeKV(Tail(kv), d))

EncodeEl(el, d) ==
    Indent(d) \o Encode(el[1], d)
      \o (IF Len(el) = 1 THEN "" ELSE ",\n" \o EncodeEl(Tail(el), d))

MarshalIndent(v) == Encode(v, 0)

-----------------------------------------------------------------------------
(* crypto/sha256 and encoding/hex. *)

\* sha256.Sum256 stands here as a polynomial hash of the bytes with a fixed
\* two-byte digest: a deterministic function of exactly the bytes it is given.
\* 31^k modulo 32749
RECURSIVE HashPow(_)
HashPow(k) ==
    IF k = 0 THEN 1
    ELSE LET h == HashPow(k \div 2)
         IN  IF k % 2 = 0 THEN (h * h) % 32749 ELSE (((h * h) % 32749) * 31) % 32749

\* The polynomial in 31 of the bytes lo..hi of data, modulo 32749.
RECURSIVE HashRange(_, _, _)
HashRange(data, lo, hi) ==
    IF lo > hi THEN 0
    ELSE IF lo = hi THEN Ord[CharAt(data, lo)]
    ELSE LET mid == (lo + hi) \div 2
         IN  (HashRange(data, lo, mid) * HashPow(hi - mid)
                + HashRange(data, mid + 1, hi)) % 32749

Sum256(data) ==
    LET h == (7 * HashPow(Len(data)) + HashRange(data, 1, Len(data))) % 32749
    IN  <<h \div 256, h % 256>>

HexDigits == "0123456789abcdef"
HexByte(b) == CharAt(HexDigits, (b \div 16) + 1) \o CharAt(HexDigits, (b % 16) + 1)

\* hex.EncodeToString
RECURSIVE EncodeToString(_)
EncodeToString(b) == IF b = <<>> THEN "" ELSE HexByte(Head(b)) \o EncodeToString(Tail(b))

-----------------------------------------------------------------------------
(* time.Time (UTC) as [Y, Mo, D, h, mi, s], and the two layouts used. *)

Time(Y, Mo, D, h, mi, s) == [Y |-> Y, Mo |-> Mo, D |-> D, h |-> h, mi |-> mi, s |-> s]

\* t.Format("20060102-150405")
FormatCompact(t) ==
    Pad(t.Y, 4) \o Pad(t.Mo, 2) \o Pad(t.D, 2) \o "-" \o Pad(t.h, 2) \o Pad(t.mi, 2) \o Pad(t.s, 2)

\* t.Format(time.RFC3339) of a UTC time
FormatRFC3339(t) ==
    Pad(t.Y, 4) \o "-" \o Pad(t.Mo, 2) \o "-" \o Pad(t.D, 2) \o "T"
      \o Pad(t.h, 2) \o ":" \o Pad(t.mi, 2) \o ":" \o Pad(t.s, 2) \o "Z"

\* A time.Time as a field of a value handed to encoding/json.
TimeValue(t) == TimeV(FormatRFC3339(t), t.Y)

-----------------------------------------------------------------------------
(* The layout constants and the types of pkg/types. *)

ManifestFile  == "manifest.json"
SummaryFile   == "summary.txt"
GraphFile     == "graph.json"
DiagnosisFile == "diagnosis.json"
ResourcesDir  == "resources"
LogsDir       == "logs"
MetadataDir   == "metadata"

\* types.Issue and types.DiagnosticResult as encoding/json sees them.
IssueValue(i) == Struct(<< <<"level", Str(i.Level)>>, <<"message", Str(i.Message)>> >>)

DiagnosisValue(d) ==
    Struct(<< <<"issues", TList([i \in DOMAIN d.Issues |-> IssueValue(d.Issues[i])])>>,
              <<"score", Num(d.Score)>> >>)

\* types.BundleMetadata; environment has omitempty.
MetadataValue(m) ==
    Struct(<< <<"creationTimestamp", TimeValue(m.CreationTimestamp)>>,
              <<"fluidVersion", Str(m.FluidVersion)>>,
              <<"k8sVersion", Str(m.K8sVersion)>> >>
           \o (IF m.Environment = "" THEN <<>>
               ELSE << <<"environment", Str(m.Environment)>> >>))

\* types.FileEntry and types.BundleManifest.
FileEntryValue(f) ==
    Struct(<< <<"path", Str(f.Path)>>, <<"size", Num(f.Size)>>, <<"sha256", Str(f.SHA256)>> >>)

ManifestValue(m) ==
    Struct(<< <<"version", Str(m.Version)>>,
              <<"generatedAt", TimeValue(m.GeneratedAt)>>,
              <<"totalFiles", Num(m.TotalFiles)>>,
              <<"files", TList([i \in DOMAIN m.Files |-> FileEntryValue(m.Files[i])])>>,
              <<"contentHash", Str(m.ContentHash)>> >>)

-----------------------------------------------------------------------------
(* ManifestBuilder. *)

NewManifestBuilder(version, ts) ==
    [Version |-> version, GeneratedAt |-> ts, TotalFiles |-> 0,
     Files |-> <<>>, ContentHash |-> ""]

\* A ManifestBuilder.AddFile that appends the entry and leaves the count alone.
ManifestAddFileNoCount(m, path, size, data) ==
    [m EXCEPT !.Files = Append(@, [Path |-> path, Size |-> size,
                                   SHA256 |-> EncodeToString(Sum256(data))])]

\* ManifestBuilder.AddFile
ManifestAddFile(m, path, size, data) ==
    LET entry == [Path |-> path, Size |-> size,
                  SHA256 |-> EncodeToString(Sum256(data))]
    IN  [m EXCEPT !.Files = Append(@, entry), !.TotalFiles = @ + 1]

\* The bytes the hasher of ManifestBuilder.Build is fed.
RECURSIVE DigestsOf(_)
DigestsOf(fs) == IF fs = <<>> THEN "" ELSE Head(fs).SHA256 \o DigestsOf(Tail(fs))

\* A ManifestBuilder.Build that hashes the version and the first path
\* along with the digests.
ManifestBuildStamped(m) ==
    [m EXCEPT !.ContentHash =
        EncodeToString(Sum256(m.Version \o DigestsOf(m.Files) \o
                              (IF m.Files = <<>> THEN "" ELSE m.Files[1].Path)))]

\* ManifestBuilder.Build
ManifestBuild(m) ==
    [m EXCEPT !.ContentHash = EncodeToString(Sum256(DigestsOf(m.Files)))]

-----------------------------------------------------------------------------
(* ArchiveWriter: its buffer is a function from path to content. *)

NoFiles == [p \in {} |-> ""]

\* ArchiveWriter.AddFile: w.files[path] = content
WriterAddFile(fs, path, content) ==
    [p \in DOMAIN fs \cup {path} |-> IF p = path THEN content ELSE fs[p]]

\* A WriteToDisk that visits the buffer in decreasing order of the paths.
PathsDescending(fs) ==
    LET up == SortStrings(DOMAIN fs) IN [i \in DOMAIN up |-> up[Len(up) + 1 - i]]

\* The paths of the buffer in the order WriteToDisk visits them.
SortedPaths(fs) == SortStrings(DOMAIN fs)

\* The tar header and body WriteToDisk writes for the buffered path p.
TarEntry(baseDir, ts, p, content) ==
    [Name |-> Join(baseDir, p), Size |-> Len(content), Mode |-> "0644",
     ModTime |-> ts, AccessTime |-> ts, ChangeTime |-> ts,
     Typeflag |-> "TypeReg", Path |-> p, Body |-> content]
-----------------------------------------------------------------------------
(* The state. *)

VARIABLES
    input,      \* the BundleInput Build is called with
    cfg,        \* Build's config: redact, timestamp, outputDir
    pc,         \* where the running Build (or writer) call stands
    manifest,   \* manifestBuilder.manifest
    files,      \* archiveWriter.files
    logsLeft,   \* keys of input.Logs the range loop has not visited yet
    resLeft,    \* keys of input.Resources the range loop has not visited yet
    queue,      \* WriteToDisk: the sorted paths not written yet
    totalSize,  \* WriteToDisk: totalSize
    disk,       \* the output directory and the archive file in it
    result,     \* the *BundleResult Build returned, NoResult for nil
    err,        \* the message of the error returned, "" for nil
    run,        \* the number of the call on this input
    prev,       \* what the previous call on this input left on disk
    calls,      \* the paths handed to ArchiveWriter.AddFile so far, in order
    raw,        \* a text handed to the redactor on its own
    redacted    \* what the redactor returned for it

vars == <<input, cfg, pc, manifest, files, logsLeft, resLeft, queue, totalSize,
          disk, result, err, run, prev, calls, raw, redacted>>

NoResult == [ArchivePath |-> "", FileCount |-> 0, SizeBytes |-> 0,
             Manifest |-> NewManifestBuilder("", Time(0, 0, 0, 0, 0, 0))]

\* dir: the output directory exists; exists: the archive file exists;
\* entries: the tar entries that reached it; complete: the tar footer and
\* the gzip trailer were flushed and the file closed without error.
NoDisk == [dir |-> FALSE, exists |-> FALSE, entries |-> <<>>, complete |-> FALSE]

-----------------------------------------------------------------------------
(* Build, step by step. *)

\* baseDir of Build
BaseDir(c) == "fluid-diagnose-" \o FormatCompact(c.timestamp)

\* The summary text of Build.
Summary(c, in) ==
    "Fluid Diagnostic Bundle\nGenerated: " \o FormatRFC3339(c.timestamp)
      \o "\nIssues: " \o Itoa(Len(in.Diagnosis.Issues)) \o "\n"

IsRawData(data) == data.t \in {"bytes", "str"}

\* The closure addFile of Build, as a function of the config, the manifest
\* and the writer's buffer: the error it returns ("" for nil) and the manifest
\* and buffer it leaves.  The isJSON flag is read only for data that is neither
\* []byte nor string; Build passes true for every such value, so the yaml
\* branch is never taken and is left out.

\* "Add to manifest and writer"
addFileRegister(m, fs, path, content) ==
    [err |-> "",
     manifest |-> ManifestAddFile(m, path, Len(content), content),
     files |-> WriterAddFile(fs, path, content)]

\* "Serialization phase (if not already bytes)"; content is what the redaction
\* phase left of the data.
addFileSerialize(m, fs, path, content) ==
    IF IsRawData(content) THEN addFileRegister(m, fs, path, content.s)
    ELSE IF ~Marshalable(content)
    THEN [err |-> "serialization failed for " \o path \o ": " \o MarshalError(content),
          manifest |-> m, files |-> fs]
    ELSE addFileRegister(m, fs, path, MarshalIndent(content))

\* "Redaction phase"
addFile(c, m, fs, path, data) ==
    IF ~c.redact THEN addFileSerialize(m, fs, path, data)
    ELSE IF data.t = "bytes" THEN addFileRegister(m, fs, path, Redact(data.s))
    ELSE IF data.t = "str" THEN addFileRegister(m, fs, path, RedactString(data.s))
    ELSE IF ~Marshalable(data)
    THEN [err |-> "redaction failed for " \o path \o ": " \o MarshalError(data),
          manifest |-> m, files |-> fs]
    ELSE addFileSerialize(m, fs, path, scrubJSON(data))

\* A Build that adds the raw resources before the logs.
AfterAddResourcesFirst(logs, res) ==
    IF res # {} THEN "resources" ELSE IF logs # {} THEN "logs" ELSE "manifest"

\* Where Build goes after the summary or after an entry of a range loop.
AfterAdd(logs, res) ==
    IF logs # {} THEN "logs" ELSE IF res # {} THEN "resources" ELSE "manifest"

\* A Build that drops the error of addFile and goes on with the next file.
AddReturnedContinue(r, path, next) ==
    /\ manifest' = r.manifest
    /\ files' = r.files
    /\ err' = r.err
    /\ calls' = IF r.err = "" THEN Append(calls, path) ELSE calls
    /\ pc' = next
    /\ UNCHANGED <<input, cfg, queue, totalSize, disk, result, run, prev, raw, redacted>>

\* The branch of Build on what addFile returned.
AddReturned(r, path, next) ==
    /\ manifest' = r.manifest
    /\ files' = r.files
    /\ err' = r.err
    /\ calls' = IF r.err = "" THEN Append(calls, path) ELSE calls
    /\ pc' = IF r.err = "" THEN next ELSE "failed"
    /\ UNCHANGED <<input, cfg, queue, totalSize, disk, result, run, prev, raw, redacted>>

\* One call of addFile by Build.
AddStep(path, data, next) ==
    AddReturned(addFile(cfg, manifest, files, path, data), path, next)

AddGraph ==
    /\ pc = "graph"
    /\ AddStep(GraphFile, input.Graph, "diagnosis")
    /\ UNCHANGED <<logsLeft, resLeft>>

AddDiagnosis ==
    /\ pc = "diagnosis"
    /\ AddStep(DiagnosisFile, DiagnosisValue(input.Diagnosis), "metadata")
    /\ UNCHANGED <<logsLeft, resLeft>>

AddMetadata ==
    /\ pc = "metadata"
    /\ AddStep(Join(MetadataDir, "environment.json"), MetadataValue(input.Metadata), "summary")
    /\ UNCHANGED <<logsLeft, resLeft>>

AddSummary ==
    /\ pc = "summary"
    /\ AddStep(SummaryFile, Str(Summary(cfg, input)), AfterAdd(logsLeft, resLeft))
    /\ UNCHANGED <<logsLeft, resLeft>>

\* One iteration of the range over input.Logs: Go visits the keys of a map in
\* an order of its choosing.
AddLog ==
    /\ pc = "logs"
    /\ \E filename \in logsLeft :
          /\ AddStep(Join(LogsDir, filename), Bytes(input.Logs[filename]),
                     AfterAdd(logsLeft \ {filename}, resLeft))
          /\ logsLeft' = logsLeft \ {filename}
    /\ UNCHANGED resLeft

\* One iteration of the range over input.Resources.
AddResource ==
    /\ pc = "resources"
    /\ \E path \in resLeft :
          /\ AddStep(Join(ResourcesDir, path), Str(input.Resources[path]),
                     AfterAdd({}, resLeft \ {path}))
          /\ resLeft' = resLeft \ {path}
    /\ UNCHANGED logsLeft

\* Step 6 of Build: the manifest is built, encoded and handed to the writer
\* only.
ManifestBuilt(m, value) ==
    /\ manifest' = m
    /\ IF Marshalable(value)
       THEN /\ files' = WriterAddFile(files, ManifestFile, MarshalIndent(value))
            /\ calls' = Append(calls, ManifestFile)
            /\ err' = ""
            /\ pc' = "mkdir"
       ELSE /\ UNCHANGED <<files, calls>>
            /\ err' = "failed to marshal manifest: " \o MarshalError(value)
            /\ pc' = "failed"

ManifestBuiltAs(m) == ManifestBuilt(m, ManifestValue(m))

FinalizeManifest ==
    /\ pc = "manifest"
    /\ ManifestBuiltAs(ManifestBuild(manifest))
    /\ UNCHANGED <<input, cfg, logsLeft, resLeft, queue, totalSize, disk, result,
                   run, prev, raw, redacted>>
-----------------------------------------------------------------------------
(* ArchiveWriter.WriteToDisk, step by step, and the return of Build.  Each   *)
(* call of the operating system or of the tar writer either succeeds or      *)
(* fails.                                                                    *)

\* The error of a failed call of the operating system or of the tar writer;
\* its text is not the program's.
IOError == "input/output error"

\* WriteToDisk returns the wrapped error; Build, when it is the caller (run
\* is 0 when the writer is driven on its own), wraps it once more and returns.
WriteFailed(msg) ==
    /\ err' = (IF run = 0 THEN "" ELSE "failed to write archive: ") \o msg \o ": " \o IOError
    /\ pc' = "failed"

\* os.MkdirAll(outputDir, 0755)
MkdirAll ==
    /\ pc = "mkdir"
    /\ \E ok \in BOOLEAN :
          IF ok
          THEN /\ disk' = [disk EXCEPT !.dir = TRUE]
               /\ pc' = "create"
               /\ UNCHANGED err
          ELSE /\ WriteFailed("failed to create output directory")
               /\ UNCHANGED disk
    /\ UNCHANGED <<input, cfg, manifest, files, logsLeft, resLeft, queue, totalSize,
                   result, run, prev, calls, raw, redacted>>

\* filepath.Abs and os.Create; then the gzip and tar writers are set up and
\* the buffered paths sorted.
CreateFile ==
    /\ pc = "create"
    /\ \E outcome \in {"ok", "abs", "create"} :
          CASE outcome = "ok" ->
                  /\ disk' = [disk EXCEPT !.exists = TRUE, !.entries = <<>>,
                                          !.complete = FALSE]
                  /\ queue' = SortedPaths(files)
                  /\ totalSize' = 0
                  /\ pc' = "entries"
                  /\ UNCHANGED err
            [] outcome = "abs" ->
                  /\ WriteFailed("failed to resolve absolute path")
                  /\ UNCHANGED <<disk, queue, totalSize>>
            [] outcome = "create" ->
                  /\ WriteFailed("failed to create archive file")
                  /\ UNCHANGED <<disk, queue, totalSize>>
    /\ UNCHANGED <<input, cfg, manifest, files, logsLeft, resLeft, result, run, prev,
                   calls, raw, redacted>>

\* One iteration of the loop over the sorted paths: tw.WriteHeader, then
\* tw.Write.  On an error the function returns; the deferred Close calls run
\* and their errors are dropped; the file stays where it was created.
WriteEntry ==
    /\ pc = "entries"
    /\ queue # <<>>
    /\ LET p == Head(queue)
           e == TarEntry(BaseDir(cfg), cfg.timestamp, p, files[p])
       IN  \E outcome \in {"ok", "header", "content"} :
              CASE outcome = "ok" ->
                      /\ disk' = [disk EXCEPT !.entries = Append(@, e)]
                      /\ totalSize' = totalSize + Len(files[p])
                      /\ queue' = Tail(queue)
                      /\ UNCHANGED <<pc, err>>
                [] outcome = "header" ->
                      /\ WriteFailed("failed to write header for " \o p)
                      /\ UNCHANGED <<disk, totalSize, queue>>
                [] outcome = "content" ->
                      /\ disk' = [disk EXCEPT !.entries = Append(@, [e EXCEPT !.Body = ""])]
                      /\ WriteFailed("failed to write content for " \o p)
                      /\ UNCHANGED <<totalSize, queue>>
    /\ UNCHANGED <<input, cfg, manifest, files, logsLeft, resLeft, result, run, prev,
                   calls, raw, redacted>>

\* The absolute path WriteToDisk returns.
ArchivePath(c) == Join(c.outputDir, BaseDir(c) \o ".tar.gz")

\* A BundleResult whose FileCount leaves out manifest.json.
BundleResultListedOnly(m, path, size) ==
    [ArchivePath |-> path, FileCount |-> m.TotalFiles, Manifest |-> m, SizeBytes |-> size]

\* The BundleResult of Build.
BundleResult(m, path, size) ==
    [ArchivePath |-> path, FileCount |-> m.TotalFiles + 1, Manifest |-> m,
     SizeBytes |-> size]

\* The loop is over: WriteToDisk returns absPath and totalSize with a nil
\* error.  The deferred tw.Close, gw.Close and f.Close run on the way out;
\* whether they could flush the footer and the compressed data is not looked
\* at.  Build returns its result.
Finish ==
    /\ pc = "entries"
    /\ queue = <<>>
    /\ \E flushed \in BOOLEAN : disk' = [disk EXCEPT !.complete = flushed]
    /\ result' = BundleResult(manifest, ArchivePath(cfg), totalSize)
    /\ err' = ""
    /\ pc' = "done"
    /\ UNCHANGED <<input, cfg, manifest, files, logsLeft, resLeft, queue, totalSize,
                   run, prev, calls, raw, redacted>>

-----------------------------------------------------------------------------
(* A further, independent call of Build on the same input with the same    *)
(* options, into another output directory.                                 *)

OutputDir(r) == "/tmp/run" \o Itoa(r)

StartBuild(in, c, r) ==
    /\ input = in
    /\ cfg = c
    /\ pc = "graph"
    /\ manifest = NewManifestBuilder("v1", c.timestamp)
    /\ files = NoFiles
    /\ logsLeft = DOMAIN in.Logs
    /\ resLeft = DOMAIN in.Resources
    /\ queue = <<>>
    /\ totalSize = 0
    /\ disk = NoDisk
    /\ result = NoResult
    /\ err = ""
    /\ run = r
    /\ calls = <<>>
    /\ raw = ""
    /\ redacted = ""

Rerun ==
    /\ pc = "done"
    /\ disk.complete
    /\ run < MaxRuns
    /\ prev' = disk
    /\ cfg' = [cfg EXCEPT !.outputDir = OutputDir(run + 1)]
    /\ pc' = "graph"
    /\ manifest' = NewManifestBuilder("v1", cfg.timestamp)
    /\ files' = NoFiles
    /\ logsLeft' = DOMAIN input.Logs
    /\ resLeft' = DOMAIN input.Resources
    /\ queue' = <<>>
    /\ totalSize' = 0
    /\ disk' = NoDisk
    /\ result' = NoResult
    /\ err' = ""
    /\ run' = run + 1
    /\ calls' = <<>>
    /\ UNCHANGED <<input, raw, redacted>>

-----------------------------------------------------------------------------
(* The inputs Build is run on. *)

GraphPlain ==
    ResourceGraph(<< <<"kind", Str("Dataset")>>,
           <<"metadata", TMap(<< <<"name", Str("demo")>> >>)>> >>)

\* A graph json.Marshal rejects.
GraphBad == ResourceGraph(<< <<"hook", Bad>> >>)

Graphs == {GraphPlain, GraphBad}

Diagnoses == {[Issues |-> <<>>, Score |-> 0]}

\* The second creation time is one encoding/json cannot write.
Metadatas ==
    {[CreationTimestamp |-> t, FluidVersion |-> "1.0", K8sVersion |-> "1.29",
      Environment |-> "test"] : t \in {Time(2024, 1, 1, 0, 0, 0), Time(10000, 1, 1, 0, 0, 0)}}

\* Log file names and contents: plain names, names that clean to the same
\* path, names with ".." segments and a name with a leading separator.
LogTable ==
    [n \in {"test.log", "./test.log", "../graph.json", "../../x", "/b.log"} |->
        CASE n = "test.log"      -> "test content"
          [] n = "./test.log"    -> "token=abc"
          [] n = "../graph.json" -> "{}"
          [] n = "../../x"       -> "x"
          [] n = "/b.log"        -> "password: hunter2\n"]

ResourceTable ==
    [n \in {"dataset.yaml", "../manifest.json"} |->
        CASE n = "dataset.yaml"     -> "kind: Dataset\n"
          [] n = "../manifest.json" -> "secret: \"a b\"\n"]

Restrict(f, S) == [x \in S |-> f[x]]

SubsetsUpTo(S, n) == {T \in SUBSET S : Cardinality(T) <= n}

LogMaps == {Restrict(LogTable, S) : S \in SubsetsUpTo(DOMAIN LogTable, MaxLogs)}
ResourceMaps == {Restrict(ResourceTable, S) : S \in SubsetsUpTo(DOMAIN ResourceTable, MaxResources)}

Inputs ==
    {[Graph |-> g, Diagnosis |-> d, Metadata |-> m, Logs |-> l, Resources |-> r] :
        g \in Graphs, d \in Diagnoses, m \in Metadatas, l \in LogMaps, r \in ResourceMaps}

\* The options: WithTimestamp and WithOutputDir without WithRedaction, and
\* all three with another timestamp.
Configs ==
    {[redact |-> FALSE, timestamp |-> Time(2024, 1, 1, 12, 0, 0), outputDir |-> OutputDir(1)],
     [redact |-> TRUE, timestamp |-> Time(2025, 12, 31, 23, 59, 59), outputDir |-> OutputDir(1)]}

Init ==
    /\ \E in \in Inputs, c \in Configs : StartBuild(in, c, 1)
    /\ prev = NoDisk

Next ==
    \/ AddGraph
    \/ AddDiagnosis
    \/ AddMetadata
    \/ AddSummary
    \/ AddLog
    \/ AddResource
    \/ FinalizeManifest
    \/ MkdirAll
    \/ CreateFile
    \/ WriteEntry
    \/ Finish
    \/ Rerun

Spec == Init /\ [][Next]_vars

-----------------------------------------------------------------------------
(* What is in the archive file, and what the manifest says about it. *)

\* The entries of the archive whose buffered path is p.
EntriesAt(d, p) == {i \in DOMAIN d.entries : d.entries[i].Path = p}

\* The indices of the manifest's file list that name p.
ListedAt(m, p) == {i \in DOMAIN m.Files : m.Files[i].Path = p}

\* Build returned a result and the archive was written, flushed and closed.
Succeeded == pc = "done" /\ disk.exists /\ disk.complete

\* The steps in which Build calls addFile, and the paths it may be adding.
AddPcs == {"graph", "diagnosis", "metadata", "summary", "logs", "resources"}

PathsBeingAdded ==
    CASE pc = "graph"     -> {GraphFile}
      [] pc = "diagnosis" -> {DiagnosisFile}
      [] pc = "metadata"  -> {Join(MetadataDir, "environment.json")}
      [] pc = "summary"   -> {SummaryFile}
      [] pc = "logs"      -> {Join(LogsDir, f) : f \in logsLeft}
      [] pc = "resources" -> {Join(ResourcesDir, f) : f \in resLeft}
      [] OTHER            -> {}

-----------------------------------------------------------------------------
(* The claims. *)

\* C1: two runs of Build on the same input with the same fixed timestamp
\* leave byte-identical archives: the same tar entries in the same order with
\* the same bytes, manifest.json included.
C1_Deterministic ==
    (Succeeded /\ run > 1 /\ prev.complete) => disk.entries = prev.entries

\* C2: after a successful Build, the digest and the size every FileEntry of
\* the manifest records are those of the bytes stored in the archive at the
\* entry's path.
C2_ManifestMatchesContent ==
    Succeeded =>
        \A i \in DOMAIN result.Manifest.Files :
            LET f == result.Manifest.Files[i] IN
            /\ EntriesAt(disk, f.Path) # {}
            /\ \A k \in EntriesAt(disk, f.Path) :
                  /\ f.SHA256 = EncodeToString(Sum256(disk.entries[k].Body))
                  /\ f.Size = Len(disk.entries[k].Body)

\* C3: after a successful Build, every archive entry other than manifest.json
\* has exactly one FileEntry, no path is listed twice, every listed path is in
\* the archive, and manifest.json is in the archive and not in the list.
C3_ManifestListsArchive ==
    Succeeded =>
        /\ \A k \in DOMAIN disk.entries :
              disk.entries[k].Path # ManifestFile =>
                  Cardinality(ListedAt(result.Manifest, disk.entries[k].Path)) = 1
        /\ \A i \in DOMAIN result.Manifest.Files :
              /\ Cardinality(ListedAt(result.Manifest, result.Manifest.Files[i].Path)) = 1
              /\ EntriesAt(disk, result.Manifest.Files[i].Path) # {}
        /\ EntriesAt(disk, ManifestFile) # {}
        /\ ListedAt(result.Manifest, ManifestFile) = {}

\* C5: Build either succeeds with a complete archive that holds every
\* manifested file at the output path, or returns an error and has written
\* nothing at the output path.
C5_AllOrNothing ==
    /\ (pc = "done" =>
          /\ disk.exists /\ disk.complete
          /\ \A i \in DOMAIN result.Manifest.Files :
                EntriesAt(disk, result.Manifest.Files[i].Path) # {})
    /\ (pc = "failed" => ~disk.exists)

\* C6: when addFile fails for a logical file, Build returns a nil result and
\* an error that names that file's path, nothing was registered for the file,
\* no step of Build follows, and neither the output directory nor the archive
\* file was created.
C6_PerFileFailureAborts ==
    [][/\ ((pc \in AddPcs /\ err' # "") =>
             /\ pc' = "failed"
             /\ \E p \in PathsBeingAdded :
                   \/ HasPrefix(err', "redaction failed for " \o p \o ": ")
                   \/ HasPrefix(err', "serialization failed for " \o p \o ": ")
             /\ result' = NoResult
             /\ manifest' = manifest /\ files' = files
             /\ disk' = NoDisk /\ ~disk'.dir /\ ~disk'.exists)
        /\ (pc = "failed" => FALSE)]_vars

\* C6, reached: the metadata could not be redacted, after the graph and the
\* diagnosis were added.
C6_Witness ==
    /\ pc = "failed"
    /\ HasPrefix(err, "redaction failed for metadata/environment.json: ")
    /\ Len(manifest.Files) = 2
    /\ disk = NoDisk

\* C8: after a successful Build, every entry of the archive lies under the root directory
\* fluid-diagnose-<YYYYMMDD-HHMMSS> of the configured timestamp.
C8_SingleRoot ==
    Succeeded => \A k \in DOMAIN disk.entries :
        HasPrefix(disk.entries[k].Name, BaseDir(cfg) \o "/")

\* C10: on a successful Build, FileCount is TotalFiles + 1 and TotalFiles is
\* the number of entries of manifest.Files.
C10_FileCount ==
    pc = "done" =>
        /\ result.FileCount = result.Manifest.TotalFiles + 1
        /\ result.Manifest.TotalFiles = Len(result.Manifest.Files)

\* C10, reached: a Build with the four core files, two logs and a resource.
C10_Witness ==
    /\ pc = "done"
    /\ Len(result.Manifest.Files) = 7
    /\ result.FileCount = 8

-----------------------------------------------------------------------------
(* The ArchiveWriter on its own: any sequence of at most MaxAdds AddFile    *)
(* calls, then WriteToDisk.                                                 *)

NoInput == [Graph |-> Null, Diagnosis |-> [Issues |-> <<>>, Score |-> 0],
            Metadata |-> [CreationTimestamp |-> Time(0, 0, 0, 0, 0, 0), FluidVersion |-> "",
                          K8sVersion |-> "", Environment |-> ""],
            Logs |-> NoFiles, Resources |-> NoFiles]

\* Paths for AddFile: an upper-case and a lower-case name, a name that is a
\* prefix of others, '.' and '/' after the same prefix, an uncleaned name.
WriterPaths == {"a", "b", "B", "a.b", "a/b", "./a"}

\* NewArchiveWriter(baseDir, timestamp), and an output directory.
InitWriter ==
    /\ input = NoInput
    /\ cfg \in Configs
    /\ pc = "adding"
    /\ manifest = NewManifestBuilder("", cfg.timestamp)
    /\ files = NoFiles
    /\ logsLeft = {}
    /\ resLeft = {}
    /\ queue = <<>>
    /\ totalSize = 0
    /\ disk = NoDisk
    /\ result = NoResult
    /\ err = ""
    /\ run = 0
    /\ prev = NoDisk
    /\ calls = <<>>
    /\ raw = ""
    /\ redacted = ""

\* w.AddFile(path, content); the content tells the calls apart.
WriterAdd ==
    /\ pc = "adding"
    /\ Len(calls) < MaxAdds
    /\ \E path \in WriterPaths :
          /\ files' = WriterAddFile(files, path, "content " \o Itoa(Len(calls) + 1))
          /\ calls' = Append(calls, path)
    /\ UNCHANGED <<input, cfg, pc, manifest, logsLeft, resLeft, queue, totalSize, disk,
                   result, err, run, prev, raw, redacted>>

\* w.WriteToDisk(outputDir) is called.
WriterStart ==
    /\ pc = "adding"
    /\ pc' = "mkdir"
    /\ UNCHANGED <<input, cfg, manifest, files, logsLeft, resLeft, queue, totalSize, disk,
                   result, err, run, prev, calls, raw, redacted>>

\* WriteToDisk returns absPath, totalSize, nil; the deferred Close calls run.
WriterReturn ==
    /\ pc = "entries"
    /\ queue = <<>>
    /\ \E flushed \in BOOLEAN : disk' = [disk EXCEPT !.complete = flushed]
    /\ pc' = "written"
    /\ UNCHANGED <<input, cfg, manifest, files, logsLeft, resLeft, queue, totalSize,
                   result, err, run, prev, calls, raw, redacted>>

NextWriter ==
    \/ WriterAdd
    \/ WriterStart
    \/ MkdirAll
    \/ CreateFile
    \/ WriteEntry
    \/ WriterReturn

SpecWriter == InitWriter /\ [][NextWriter]_vars

\* The buffered paths of the entries written so far, in archive order.
WrittenPaths == [i \in DOMAIN disk.entries |-> disk.entries[i].Path]

-----------------------------------------------------------------------------
(* The pattern redactor on its own: Build with WithRedaction adding one     *)
(* log or one raw resource whose text is made of at most MaxPieces pieces.  *)

\* Markers in both letter cases with and without space around the delimiter,
\* a value followed by a space, both quotes, a letter that is no marker, a
\* marker and a delimiter on their own.
Pieces == {"key=", "TOKEN : ", "v ", "\"", "'", "x", "secret", ":"}

RECURSIVE TextsOf(_)
TextsOf(n) ==
    IF n = 0 THEN {""}
    ELSE TextsOf(n - 1) \cup {t \o p : t \in TextsOf(n - 1), p \in Pieces}

Texts == TextsOf(MaxPieces)

InitRedact ==
    /\ raw \in Texts
    /\ redacted = ""
    /\ input = NoInput
    /\ cfg = [redact |-> TRUE, timestamp |-> Time(2024, 1, 1, 12, 0, 0),
              outputDir |-> OutputDir(1)]
    /\ pc = "raw"
    /\ manifest = NewManifestBuilder("v1", cfg.timestamp)
    /\ files = NoFiles
    /\ logsLeft = {}
    /\ resLeft = {}
    /\ queue = <<>>
    /\ totalSize = 0
    /\ disk = NoDisk
    /\ result = NoResult
    /\ err = ""
    /\ run = 0
    /\ prev = NoDisk
    /\ calls = <<>>

\* addFile returned r for the text: what the writer now holds at the path is
\* the redacted text.
RedactedAs(r, path) ==
    /\ manifest' = r.manifest
    /\ files' = r.files
    /\ err' = r.err
    /\ redacted' = r.files[path]
    /\ calls' = Append(calls, path)
    /\ pc' = "redacted"
    /\ UNCHANGED <<input, cfg, logsLeft, resLeft, queue, totalSize, disk, result, run,
                   prev, raw>>

\* addFile(filepath.Join(LogsDir, filename), content, false): a log is a []byte.
RedactLog ==
    /\ pc = "raw"
    /\ RedactedAs(addFile(cfg, manifest, files, Join(LogsDir, "app.log"), Bytes(raw)),
                  Join(LogsDir, "app.log"))

\* addFile(filepath.Join(ResourcesDir, path), content, false): a resource is
\* a string.
RedactResource ==
    /\ pc = "raw"
    /\ RedactedAs(addFile(cfg, manifest, files, Join(ResourcesDir, "app.yaml"), Str(raw)),
                  Join(ResourcesDir, "app.yaml"))

NextRedact == RedactLog \/ RedactResource

SpecRedact == InitRedact /\ [][NextRedact]_vars

\* The matches of the pattern in s: where each starts and where it ends.
MatchStarts(s) == {j \in 1..Len(s) : MatchAt(s, j).end # 0}
MatchSpans(s) == {<<j, MatchAt(s, j).end>> : j \in MatchStarts(s)}

\* Position j lies inside one of the spans, after its start.
Inside(spans, j) == \E sp \in spans : sp[1] < j /\ j < sp[2]

\* The non-overlapping occurrences of the pattern, leftmost first: a match
\* counts unless it starts inside an occurrence that starts before it.
OccurrencesAmong(spans) ==
    CHOOSE C \in SUBSET spans : \A sp \in spans : sp \in C <=> ~Inside(C, sp[1])

Occurrences(s) == OccurrencesAmong(MatchSpans(s))

\* What is to stand in the output for position j of s: at the start of an
\* occurrence its marker as written, ": " and the mask; nothing for the rest
\* of the occurrence; the character itself outside the occurrences.
OutputAt(s, C, j) ==
    IF \E sp \in C : sp[1] = j
    THEN SubSeq(s, j, j + MarkerAt(s, j) - 1) \o ": " \o Mask
    ELSE IF Inside(C, j) THEN ""
    ELSE CharAt(s, j)

RECURSIVE OutputFrom(_, _, _)
OutputFrom(s, C, j) ==
    IF j > Len(s) THEN "" ELSE OutputAt(s, C, j) \o OutputFrom(s, C, j + 1)

\* The captured value of every match in s begins with the mask.
OnlyMasked(s) ==
    \A j \in 1..Len(s) :
        MatchAt(s, j).end # 0 => HasAt(s, MatchAt(s, j).from, Mask)

-----------------------------------------------------------------------------
(* Build with WithRedaction on graphs whose values nest up to MaxDepth       *)
(* levels: maps of the dynamic and of a static type, structs, slices of     *)
(* both kinds, with sensitive and plain keys at every level.                *)

\* A plain key and keys that hold a sensitive word: inside a longer word, in
\* upper case and the one word that the pattern redactor does not know.
GraphKeys == {"name", "apiKey", "Authorization"}
\* The keys of the entry the graph itself holds next to its "kind".
RootKeys == {"spec", "TOKEN"}

GraphLeaves == {Str("v"), Num(7)}

\* The values with x directly inside: as the entry of a map of either kind,
\* as the field of a struct, and as the element of a slice of either kind.
Around(x) ==
    {Map(<< <<k, x>> >>) : k \in GraphKeys}
      \cup {TMap(<< <<k, x>> >>) : k \in GraphKeys}
      \cup {Struct(<< <<k, x>> >>) : k \in GraphKeys}
      \cup {List(<<x>>), TList(<<x>>)}

RECURSIVE ValuesOfDepth(_)
ValuesOfDepth(d) ==
    IF d = 0 THEN GraphLeaves
    ELSE GraphLeaves \cup UNION {Around(x) : x \in ValuesOfDepth(d - 1)}

DeepGraphs ==
    {ResourceGraph(SortKV(<< <<"kind", Str("Dataset")>>, <<k, x>> >>)) :
        k \in RootKeys, x \in ValuesOfDepth(MaxDepth)}

ScrubInputs ==
    {[Graph |-> g,
      Diagnosis |-> [Issues |-> <<[Level |-> "warn", Message |-> "token expired"]>>, Score |-> 1],
      Metadata |-> [CreationTimestamp |-> Time(2024, 1, 1, 0, 0, 0), FluidVersion |-> "1.0",
                    K8sVersion |-> "1.29", Environment |-> ""],
      Logs |-> Restrict(LogTable, {"test.log"}),
      Resources |-> Restrict(ResourceTable, {"dataset.yaml"})] : g \in DeepGraphs}

InitScrub ==
    /\ \E in \in ScrubInputs :
          StartBuild(in, [redact |-> TRUE, timestamp |-> Time(2024, 1, 1, 12, 0, 0),
                          outputDir |-> OutputDir(1)], 1)
    /\ prev = NoDisk

NextScrub ==
    \/ AddGraph
    \/ AddDiagnosis
    \/ AddMetadata
    \/ AddSummary
    \/ AddLog
    \/ AddResource
    \/ FinalizeManifest
    \/ MkdirAll
    \/ CreateFile
    \/ WriteEntry
    \/ Finish

SpecScrub == InitScrub /\ [][NextScrub]_vars

\* The files Build makes from structured input.
StructuredFiles == {GraphFile, DiagnosisFile, Join(MetadataDir, "environment.json")}

\* The keys of a JSON text as pairs of the positions of their quotes: an
\* opening quote (an even number of quotes before it), the next quote, and a
\* colon after that.  No string of these inputs holds a quote or a backslash.
QuotesOf(s) == {i \in 1..Len(s) : CharAt(s, i) = "\""}

KeySpansAmong(s, Q) ==
    {sp \in Q \X Q :
        /\ sp[1] < sp[2]
        /\ ~\E q \in Q : sp[1] < q /\ q < sp[2]
        /\ Cardinality({q \in Q : q < sp[1]}) % 2 = 0
        /\ HasAt(s, sp[2] + 1, ":")}

KeySpans(s) == KeySpansAmong(s, QuotesOf(s))

\* Every sensitive key of the JSON text s is followed by the mask as its value.
KeysMasked(s) ==
    \A sp \in KeySpans(s) :
        IsSensitive(SubSeq(s, sp[1] + 1, sp[2] - 1)) =>
            HasAt(s, sp[2] + 1, ": " \o Quote(Mask))

\* C4: with WithRedaction, in every archived file made from structured input
\* (graph, diagnosis, metadata), every mapping key at any depth, in maps or in
\* lists, whose lower-cased name contains password, token, key, secret or
\* authorization has the mask as its value.
C4_SensitiveKeysMasked ==
    (Succeeded /\ cfg.redact) =>
        \A k \in DOMAIN disk.entries :
            disk.entries[k].Path \in StructuredFiles => KeysMasked(disk.entries[k].Body)

\* C4, reached: a sensitive key of a map of a static type, inside a slice of
\* a static type, inside the graph, archived with the mask.
C4_Witness ==
    /\ Succeeded
    /\ cfg.redact
    /\ input.Graph =
          ResourceGraph(<< <<"kind", Str("Dataset")>>,
                           <<"spec", TList(<<TMap(<< <<"apiKey", Str("v")>> >>)>>)>> >>)
    /\ \E k \in DOMAIN disk.entries :
          /\ disk.entries[k].Path = GraphFile
          /\ Contains(disk.entries[k].Body, "\"apiKey\": \"[REDACTED]\"")

-----------------------------------------------------------------------------
(* The scenario of TestBuild without its raw resource: a graph, a diagnosis  *)
(* with no issues, metadata of the environment "test", the one log          *)
(* test.log, WithRedaction and the timestamp 2024-01-01T12:00:00Z.  What    *)
(* the scenario leaves open (the rest of the graph, the score, the          *)
(* versions) is drawn from small sets.                                      *)

ScenarioInputs ==
    {[Graph |-> g,
      Diagnosis |-> [Issues |-> <<>>, Score |-> sc],
      Metadata |-> [CreationTimestamp |-> Time(2024, 1, 1, 0, 0, 0), FluidVersion |-> fv,
                    K8sVersion |-> "", Environment |-> "test"],
      Logs |-> Restrict(LogTable, {"test.log"}),
      Resources |-> NoFiles] :
        g \in {ResourceGraph(<< <<"kind", Str("Dataset")>> >>), GraphPlain},
        sc \in {0, 100}, fv \in {"", "1.0"}}

InitScenario ==
    /\ \E in \in ScenarioInputs :
          StartBuild(in, [redact |-> TRUE, timestamp |-> Time(2024, 1, 1, 12, 0, 0),
                          outputDir |-> OutputDir(1)], 1)
    /\ prev = NoDisk

NextScenario ==
    \/ AddGraph
    \/ AddDiagnosis
    \/ AddMetadata
    \/ AddSummary
    \/ AddLog
    \/ FinalizeManifest
    \/ MkdirAll
    \/ CreateFile
    \/ WriteEntry
    \/ Finish

SpecScenario == InitScenario /\ [][NextScenario]_vars

\* The archive of the scenario: its name and the files in it.
ScenarioArchive ==
    /\ result.ArchivePath = Join(cfg.outputDir, "fluid-diagnose-20240101-120000.tar.gz")
    /\ Len(disk.entries) = 6
    /\ Range(WrittenPaths) = {"manifest.json", "summary.txt", "graph.json", "diagnosis.json",
                              "metadata/environment.json", "logs/test.log"}

\* C11 as stated: in the scenario (one log, no resources) the archive has
\* the name and the six files given, the manifest's totalFiles is 6 and the
\* result's FileCount is 7.
C11_AsStated ==
    pc = "done" =>
        /\ ScenarioArchive
        /\ result.Manifest.TotalFiles = 6
        /\ result.FileCount = 7

\* C11, amended: in the scenario the archive is named
\* fluid-diagnose-20240101-120000.tar.gz and holds the six files
\* manifest.json, summary.txt, graph.json, diagnosis.json,
\* metadata/environment.json and logs/test.log; the manifest lists the five
\* other than manifest.json, so totalFiles is 5 and FileCount is 6.
C11_ScenarioCounts ==
    pc = "done" =>
        /\ ScenarioArchive
        /\ result.Manifest.TotalFiles = 5
        /\ Len(result.Manifest.Files) = 5
        /\ result.FileCount = 6

\* C11, reached: the scenario's graph {"kind": "Dataset"} built and written.
C11_Witness ==
    /\ Succeeded
    /\ input.Graph = ResourceGraph(<< <<"kind", Str("Dataset")>> >>)
    /\ input.Diagnosis.Score = 0
    /\ result.FileCount = 6

-----------------------------------------------------------------------------
\* The paths of the manifest's file list, in order.
ListedPaths(m) == [i \in DOMAIN m.Files |-> m.Files[i].Path]

\* The positions lo..hi of the list name, one each, the files of the
\* directory dir that the names stand for.
ListsEach(listed, lo, hi, dir, names) ==
    \E f \in [lo..hi -> names] :
        /\ \A i, j \in lo..hi : f[i] = f[j] => i = j
        /\ \A i \in lo..hi : listed[i] = Join(dir, f[i])

\* C12: in every successful Build, manifest.Files lists graph.json,
\* diagnosis.json, metadata/environment.json and summary.txt first and in
\* that order, then one entry for every log, then one entry for every raw
\* resource; the manifest.json handed to the writer is the encoding of the
\* manifest with all of these in it, and it is the last file handed to the
\* writer.
C12_AddSequence ==
    pc = "done" =>
        /\ Len(result.Manifest.Files) =
              4 + Cardinality(DOMAIN input.Logs) + Cardinality(DOMAIN input.Resources)
        /\ SubSeq(ListedPaths(result.Manifest), 1, 4) =
              <<GraphFile, DiagnosisFile, Join(MetadataDir, "environment.json"), SummaryFile>>
        /\ ListsEach(ListedPaths(result.Manifest), 5, 4 + Cardinality(DOMAIN input.Logs),
                     LogsDir, DOMAIN input.Logs)
        /\ ListsEach(ListedPaths(result.Manifest), 5 + Cardinality(DOMAIN input.Logs),
                     Len(result.Manifest.Files), ResourcesDir, DOMAIN input.Resources)
        /\ calls = ListedPaths(result.Manifest) \o <<ManifestFile>>
        /\ files[ManifestFile] = MarshalIndent(ManifestValue(result.Manifest))

\* C12, reached: two logs and a resource, listed after the four core files
\* with the resource last.
C12_Witness ==
    /\ pc = "done"
    /\ DOMAIN input.Logs = {"test.log", "/b.log"}
    /\ DOMAIN input.Resources = {"dataset.yaml"}
    /\ Len(calls) = 8
    /\ ListedPaths(result.Manifest)[5] = "logs/b.log"
    /\ ListedPaths(result.Manifest)[6] = "logs/test.log"
    /\ ListedPaths(result.Manifest)[7] = "resources/dataset.yaml"
    /\ calls[8] = ManifestFile

-----------------------------------------------------------------------------
(* Two ManifestBuilders fed the same contents in the same order.  manifest
   is the first builder's mb.manifest and prev the second's; calls is the
   data of the AddFile calls so far; result and queue are the manifests the
   Build calls of the first and of the second builder have returned since
   the last AddFile. *)

\* File contents for AddFile: empty, a single byte, two that share a prefix.
BuilderContents == {"", "a", "ab"}

\* NewManifestBuilder(version, ts) twice: the second builder has the first's
\* version and timestamp, or another version and another timestamp.
InitBuilders ==
    /\ input = NoInput
    /\ cfg \in Configs
    /\ pc = "adding"
    /\ manifest = NewManifestBuilder("v1", cfg.timestamp)
    /\ \E c \in Configs :
          prev = NewManifestBuilder(IF c = cfg THEN "v1" ELSE "v2", c.timestamp)
    /\ files = NoFiles
    /\ logsLeft = {}
    /\ resLeft = {}
    /\ queue = <<>>
    /\ totalSize = 0
    /\ disk = NoDisk
    /\ result = <<>>
    /\ err = ""
    /\ run = 0
    /\ calls = <<>>
    /\ raw = ""
    /\ redacted = ""

\* mb.AddFile(path, size, data) on both builders with the same data: the
\* first as Build's addFile calls it (size = len(data)), the second in the
\* same way or with a path and a size of its own.
BuilderAdd ==
    /\ Len(calls) < MaxAdds
    /\ \E data \in BuilderContents, same \in BOOLEAN :
          /\ manifest' = ManifestAddFile(manifest, "f", Len(data), data)
          /\ prev' = IF same THEN ManifestAddFile(prev, "f", Len(data), data)
                             ELSE ManifestAddFile(prev, "logs/f", 7, data)
          /\ calls' = Append(calls, data)
    /\ pc' = "adding"
    /\ result' = <<>>
    /\ queue' = <<>>
    /\ UNCHANGED <<input, cfg, files, logsLeft, resLeft, totalSize, disk, err, run,
                   raw, redacted>>

\* mb.Build() on both builders: ContentHash is stored in the builder and
\* the manifest is returned.
BuilderBuild ==
    /\ Len(result) < MaxRuns
    /\ manifest' = ManifestBuild(manifest)
    /\ prev' = ManifestBuild(prev)
    /\ result' = Append(result, manifest')
    /\ queue' = Append(queue, prev')
    /\ pc' = "built"
    /\ UNCHANGED <<input, cfg, files, logsLeft, resLeft, totalSize, disk, err, run,
                   calls, raw, redacted>>

NextBuilders ==
    \/ BuilderAdd
    \/ BuilderBuild

SpecBuilders == InitBuilders /\ [][NextBuilders]_vars

\* The hex digests of the contents, concatenated in order.
RECURSIVE DigestsOfContents(_)
DigestsOfContents(datas) ==
    IF datas = <<>> THEN ""
    ELSE EncodeToString(Sum256(Head(datas))) \o DigestsOfContents(Tail(datas))

\* C13: the ContentHash of every manifest Build returns is the hash of the
\* digests of the contents added so far, concatenated in AddFile order; the
\* two builders, given the same contents in the same order, return the same
\* ContentHash whatever their version, timestamp, paths and sizes; and a Build
\* called again with no AddFile in between returns the manifest the Build
\* before it returned.
C13_AggregateDigest ==
    \A i \in DOMAIN result :
        /\ result[i].ContentHash = EncodeToString(Sum256(DigestsOfContents(calls)))
        /\ queue[i].ContentHash = result[i].ContentHash
        /\ result[i] = result[1]
        /\ queue[i] = queue[1]

\* C13, reached: Build was called twice after three AddFile calls on two
\* builders that differ in version, timestamp, paths and sizes.
C13_Witness ==
    /\ Len(result) = 2
    /\ calls = <<"ab", "", "a">>
    /\ result[2].Version # queue[2].Version
    /\ result[2].GeneratedAt # queue[2].GeneratedAt
    /\ ListedPaths(result[2]) # ListedPaths(queue[2])
    /\ \E i \in 1..3 : result[2].Files[i].Size # queue[2].Files[i].Size

-----------------------------------------------------------------------------
(* scrubMap and scrubSlice called on the values json.Unmarshal hands to
   them: maps, slices, strings and numbers of the generic kinds only.
   input.Graph is the argument (data) and result the value returned. *)

\* The generic values with x inside: a map with one key, a map with a plain
\* and a sensitive key whose value is a slice, a slice of one and of two.
GenericAround(x) ==
    {Map(<< <<k, x>> >>) : k \in GraphKeys}
      \cup {Map(<< <<"name", x>>, <<"secret", List(<<x>>)>> >>)}
      \cup {List(<<x>>), List(<<Str("v"), x>>)}

RECURSIVE GenericValues(_)
GenericValues(d) ==
    IF d = 0 THEN GraphLeaves
    ELSE GraphLeaves \cup UNION {GenericAround(x) : x \in GenericValues(d - 1)}

InitStructure ==
    /\ \E v \in GenericValues(MaxDepth) \ GraphLeaves : input = [NoInput EXCEPT !.Graph = v]
    /\ cfg = [redact |-> TRUE, timestamp |-> Time(2024, 1, 1, 12, 0, 0), outputDir |-> OutputDir(1)]
    /\ pc = "graph"
    /\ manifest = NewManifestBuilder("v1", cfg.timestamp)
    /\ files = NoFiles
    /\ logsLeft = {}
    /\ resLeft = {}
    /\ queue = <<>>
    /\ totalSize = 0
    /\ disk = NoDisk
    /\ result = NoResult
    /\ err = ""
    /\ run = 1
    /\ prev = NoDisk
    /\ calls = <<>>
    /\ raw = ""
    /\ redacted = ""

\* scrubMap(data): the result is a new map, data is only read.
ScrubMapCall ==
    /\ pc = "graph"
    /\ input.Graph.t = "map"
    /\ result' = scrubMap(input.Graph)
    /\ pc' = "done"
    /\ UNCHANGED <<input, cfg, manifest, files, logsLeft, resLeft, queue, totalSize, disk,
                   err, run, prev, calls, raw, redacted>>

\* scrubSlice(data): the result is a new slice, data is only read.
ScrubSliceCall ==
    /\ pc = "graph"
    /\ input.Graph.t = "list"
    /\ result' = scrubSlice(input.Graph)
    /\ pc' = "done"
    /\ UNCHANGED <<input, cfg, manifest, files, logsLeft, resLeft, queue, totalSize, disk,
                   err, run, prev, calls, raw, redacted>>

NextStructure ==
    \/ ScrubMapCall
    \/ ScrubSliceCall

SpecStructure == InitStructure /\ [][NextStructure]_vars

\* out is v with the sensitive branches masked: a map has the same keys, a
\* sensitive key holds the mask whatever it held, any other key holds its
\* value with the sensitive branches masked; a slice has the same length
\* and holds its elements with the sensitive branches masked; anything else
\* is the same value.
RECURSIVE OnlySensitiveBranchesChanged(_, _)
OnlySensitiveBranchesChanged(v, out) ==
    CASE v.t = "map" ->
             /\ out.t = "map"
             /\ Len(out.kv) = Len(v.kv)
             /\ Keys(out.kv) = Keys(v.kv)
             /\ \A k \in Keys(v.kv) :
                   IF IsSensitive(k) THEN Lookup(out.kv, k) = Str(Mask)
                   ELSE OnlySensitiveBranchesChanged(Lookup(v.kv, k), Lookup(out.kv, k))
      [] v.t = "list" ->
             /\ out.t = "list"
             /\ Len(out.el) = Len(v.el)
             /\ \A i \in DOMAIN v.el : OnlySensitiveBranchesChanged(v.el[i], out.el[i])
      [] OTHER -> out = v

\* C14: scrubMap and scrubSlice return a value with the key sets and the
\* list lengths of their argument at every level they reach, with the mask
\* in place of the whole value of every sensitive key and with every other
\* leaf unchanged, and they leave their argument as it was.
C14_OnlySensitiveBranches ==
    [][pc = "graph" /\ pc' = "done" =>
          /\ input' = input
          /\ OnlySensitiveBranchesChanged(input.Graph, result')]_vars

\* C14, reached: a map whose sensitive key held a slice and whose plain key
\* holds a map with a sensitive key was scrubbed.
C14_Witness ==
    /\ pc = "done"
    /\ input.Graph = Map(<< <<"name", Map(<< <<"apiKey", Num(7)>> >>)>>,
                            <<"secret", List(<<Map(<< <<"apiKey", Num(7)>> >>)>>)>> >>)
    /\ result = Map(<< <<"name", Map(<< <<"apiKey", Str(Mask)>> >>)>>,
                       <<"secret", Str(Mask)>> >>)

-----------------------------------------------------------------------------
\* C15: no archive I/O error is swallowed: Build returns a success result
\* only if the archive was completely written, the tar footer and the gzip
\* trailer flushed and the output file closed without error; a write that
\* failed at any step, the closing steps included, ends Build with an error.
C15_NoErrorSwallowed ==
    /\ (pc = "done" /\ result # NoResult => disk.complete)
    /\ (pc = "failed" => err # "" /\ result = NoResult)
=============================================================================
